---- MODULE Spec2Model ----
(***************************************************************************)
(* HubSpot webhook sync server (webhook_server.py).                        *)
(*                                                                         *)
(* Python values are represented as follows: a JSON object is a record, the *)
(* empty dict is the empty function <<>>, a contact's property dict is an   *)
(* ordered sequence of <<key, value>> pairs (insertion order), None is the  *)
(* marker string None, a missing header is <<>>.                            *)
(***************************************************************************)
EXTENDS Integers, Sequences, FiniteSets, TLC

VARIABLES
    cfg,        \* Config: SKIP_SIGNATURE_VERIFICATION, CLIENT_SECRET, FORM_FILTER
    request,    \* the POST /webhooks/hubspot request: headers and body
    pc,         \* position of the request in decorated() / hubspot_webhook()
    events,     \* hubspot_webhook: the normalised event list
    idx,        \* hubspot_webhook: 1-based index of the event the loop is at
    results,    \* hubspot_webhook: the results list
    response,   \* the HTTP response of the webhook request, NoResponse before
    run,        \* sync_contact_to_partner: locals of the current / last run
    calls,      \* HubSpotAPI calls issued by the current / last run, in order
    dest,       \* contacts held by the destination portal
    invoked,    \* indexes of the events sync_contact_to_partner was called for
    rq,         \* HubSpotAPI._request: one call, attempt by attempt
    mapIn,      \* map_properties_for_destination: argument
    mapOut      \* map_properties_for_destination: value returned

vars == <<cfg, request, pc, events, idx, results, response, run, calls, dest,
          invoked, rq, mapIn, mapOut>>

webVars == <<cfg, request, pc, events, idx, results, response, run, calls,
             dest, invoked>>

(***************************************************************************)
(* Bounds of the model.                                                    *)
(***************************************************************************)
MaxEvents == 2          \* events per unsigned webhook batch
MaxSignedEvents == 1    \* events per batch when signature headers vary
MaxProps == 3           \* entries of a property dict given to the mapper

(***************************************************************************)
(* Python values.                                                          *)
(***************************************************************************)
None == "<None>"

EmptyDict == <<>>

\* Python truthiness of a property value: None and "" are falsy.
Truthy(v) == v /= None /\ v /= ""

\* d.get(k, default) on a JSON object
Get(d, k, default) == IF k \in DOMAIN d THEN d[k] ELSE default

\* keys of an ordered dict
Keys(d) == {d[i][1] : i \in 1..Len(d)}

\* d.get(k) on an ordered dict: None if the key is absent
DictGet(d, k) ==
    IF k \in Keys(d) THEN d[CHOOSE i \in 1..Len(d) : d[i][1] = k][2] ELSE None

\* d[k] = v on an ordered dict: an existing key keeps its position
DictSet(d, k, v) ==
    IF k \in Keys(d)
    THEN [i \in 1..Len(d) |-> IF d[i][1] = k THEN <<k, v>> ELSE d[i]]
    ELSE Append(d, <<k, v>>)

(***************************************************************************)
(* Config                                                                  *)
(***************************************************************************)
PROPERTIES_TO_SYNC ==
    << "firstname", "lastname", "phone", "email", "address", "city", "state",
       "zip", "military_status___dropdown", "military_branch___dropdown",
       "military_rank", "verify_date_of_birth", "armed_forces_mutual_member",
       "edge_sso_sign_up", "edge_xp_earned__all_time_",
       "edge_initial_financial_assessment_completed_date",
       "stress_score_total", "stress_score_completed_date",
       "opted_out_of_communications_afm" >>

PROPERTY_MAPPING ==
    [k \in {"opted_out_of_communications_afm"} |-> "hs_email_optout_27547260"]

PROPERTIES_TO_SKIP ==
    << "military_status___dropdown", "military_branch___dropdown",
       "armed_forces_mutual_member" >>

SkipSet == {PROPERTIES_TO_SKIP[i] : i \in 1..Len(PROPERTIES_TO_SKIP)}

(***************************************************************************)
(* map_properties_for_destination                                          *)
(***************************************************************************)
\* one iteration of the loop over source_props.items()
MapEntryNoSkip(dest_props, source_key, value) ==
    IF ~Truthy(value) THEN dest_props
    ELSE DictSet(dest_props,
                 IF source_key \in DOMAIN PROPERTY_MAPPING
                 THEN PROPERTY_MAPPING[source_key] ELSE source_key,
                 value)

MapEntry(dest_props, source_key, value) ==
    IF ~Truthy(value) THEN dest_props
    ELSE IF source_key \in SkipSet THEN dest_props
    ELSE DictSet(dest_props,
                 IF source_key \in DOMAIN PROPERTY_MAPPING
                 THEN PROPERTY_MAPPING[source_key] ELSE source_key,
                 value)

RECURSIVE MapLoop(_, _)
MapLoop(dest_props, rest) ==
    IF rest = <<>> THEN dest_props
    ELSE MapLoop(MapEntry(dest_props, Head(rest)[1], Head(rest)[2]), Tail(rest))

map_properties_for_destination(source_props) == MapLoop(<<>>, source_props)

(***************************************************************************)
(* HubSpotAPI._request                                                     *)
(*                                                                         *)
(* An HTTP exchange is a record: exc is the RequestException raised by      *)
(* requests.request (None if a response arrived), status the status code,   *)
(* retry_after the Retry-After header (<<>> if absent), text whether the    *)
(* body is non-empty, json the parsed body.                                 *)
(***************************************************************************)
BASE_URL == "https://api.hubapi.com"

retries == 3

Resp(status, retry_after, text, json) ==
    [exc |-> None, status |-> status, retry_after |-> retry_after,
     text |-> text, json |-> json]

Ok(json) == Resp(200, <<>>, TRUE, json)
OkEmpty == Resp(204, <<>>, FALSE, EmptyDict)
RateLimited(retry_after) == Resp(429, retry_after, TRUE, EmptyDict)
ServerError == Resp(500, <<>>, TRUE, EmptyDict)
Conflict == Resp(409, <<>>, TRUE, EmptyDict)
ConnectionError ==
    [exc |-> "ConnectionError", status |-> 0, retry_after |-> <<>>,
     text |-> FALSE, json |-> EmptyDict]

\* int(response.headers.get("Retry-After", 10)): the value, or -1 when int()
\* raises ValueError (a Retry-After given as an HTTP date)
RetryAfterSeconds(resp) ==
    IF resp.retry_after = <<>> THEN 10
    ELSE CASE resp.retry_after = <<"7">> -> 7
           [] resp.retry_after = <<"1">> -> 1
           [] OTHER -> -1

\* state of a call before its first attempt
NewRequest(method, endpoint, data) ==
    [method |-> method, url |-> BASE_URL \o endpoint, data |-> data,
     attempt |-> 0,
     status |-> IF retries = 0 THEN "returned" ELSE "running",
     value |-> EmptyDict, sent |-> <<>>, slept |-> <<>>, got |-> <<>>]

\* the except branch: back off and retry, or re-raise on the last attempt
OnRequestException(r, name) ==
    IF r.attempt < retries - 1
    THEN [r EXCEPT !.slept = Append(@, 2 ^ r.attempt), !.attempt = @ + 1]
    ELSE [r EXCEPT !.status = "raised", !.value = name]

\* the 429 branch: sleep Retry-After, continue; after the last attempt the
\* loop ends and {} is returned
OnRateLimitBackoff(r, resp) ==
    IF RetryAfterSeconds(resp) < 0
    THEN [r EXCEPT !.status = "raised", !.value = "ValueError"]
    ELSE [r EXCEPT !.slept = Append(@, 2 ^ r.attempt),
                   !.attempt = @ + 1,
                   !.status = IF r.attempt + 1 < retries
                              THEN "running" ELSE "returned",
                   !.value = EmptyDict]

OnRateLimit(r, resp) ==
    IF RetryAfterSeconds(resp) < 0
    THEN [r EXCEPT !.status = "raised", !.value = "ValueError"]
    ELSE [r EXCEPT !.slept = Append(@, RetryAfterSeconds(resp)),
                   !.attempt = @ + 1,
                   !.status = IF r.attempt + 1 < retries
                              THEN "running" ELSE "returned",
                   !.value = EmptyDict]

\* one iteration of `for attempt in range(retries)` receiving resp
RequestStep(r0, resp) ==
    LET r == [r0 EXCEPT
                !.sent = Append(@, [method |-> r0.method, url |-> r0.url,
                                    json |-> r0.data]),
                !.got = Append(@, resp)]
    IN  IF resp.exc /= None THEN OnRequestException(r, resp.exc)
        ELSE IF resp.status = 429 THEN OnRateLimit(r, resp)
        ELSE IF resp.status >= 400 THEN OnRequestException(r, "HTTPError")
        ELSE [r EXCEPT !.status = "returned",
                       !.value = IF resp.text THEN resp.json ELSE EmptyDict]

\* the whole loop, fed the exchanges the server answers with
RECURSIVE RunRequest(_, _)
RunRequest(r, script) ==
    IF r.status /= "running" \/ script = <<>> THEN r
    ELSE RunRequest(RequestStep(r, Head(script)), Tail(script))

\* whether some attempt of the call received a successful response
Got2xx(r) == \E i \in 1..Len(r.got) :
                r.got[i].exc = None /\ r.got[i].status < 400

\* the answer sequences that end a call, by class of answer: the call ends
\* with its first 2xx, or with its last attempt when no attempt gets a 2xx
ScriptShapes ==
    { Append(p, "2xx") :
        p \in UNION { [1..k -> {"429", "5xx"}] : k \in 0..(retries - 1) } }
    \cup [1..retries -> {"429", "5xx"}]

\* a shape filled in with the successful answer `ok` and the failure `fail`
Answers(shape, ok, fail) ==
    [i \in DOMAIN shape |->
        CASE shape[i] = "2xx" -> ok
          [] shape[i] = "429" -> RateLimited(<<>>)
          [] OTHER -> fail]

Scripts(oks, fail) ==
    { Answers(shape, ok, fail) : shape \in ScriptShapes, ok \in oks }

(***************************************************************************)
(* HubSpotAPI: the four client calls.  Each returns the finished _request   *)
(* record for the exchanges `script` the portal answers with.               *)
(***************************************************************************)
RECURSIVE Join(_, _)
Join(sep, strs) ==
    IF strs = <<>> THEN ""
    ELSE IF Len(strs) = 1 THEN strs[1]
    ELSE strs[1] \o sep \o Join(sep, Tail(strs))

\* props = ",".join(properties), for Config.PROPERTIES_TO_SYNC
PropertiesQuery == Join(",", PROPERTIES_TO_SYNC)

get_contact(contact_id, props, script) ==
    RunRequest(NewRequest("GET",
                          "/crm/v3/objects/contacts/" \o contact_id
                              \o "?properties=" \o props,
                          None),
               script)

SearchBody(email) ==
    [filterGroups |->
        << [filters |-> << [propertyName |-> "email", operator |-> "EQ",
                            value |-> email] >>] >>]

search_request(email, script) ==
    RunRequest(NewRequest("POST", "/crm/v3/objects/contacts/search",
                          SearchBody(email)),
               script)

\* results[0] if results else None   (None is written <<>>, falsy like {})
FirstResult(result) ==
    LET found == Get(result, "results", <<>>)
    IN  IF found /= <<>> THEN found[1] ELSE <<>>

create_contact(properties, script) ==
    RunRequest(NewRequest("POST", "/crm/v3/objects/contacts",
                          [properties |-> properties]),
               script)

update_contact(contact_id, properties, script) ==
    RunRequest(NewRequest("PATCH", "/crm/v3/objects/contacts/" \o contact_id,
                          [properties |-> properties]),
               script)

(***************************************************************************)
(* The two portals, as far as the relay can observe them.                   *)
(***************************************************************************)
Email == "a@x.com"

\* what GET /contacts/{id} can answer with a 2xx
SourceContacts(contact_id) ==
    { [id |-> contact_id,
       properties |-> << <<"email", Email>>, <<"firstname", "Ada">>,
                         <<"lastname", "">>,
                         <<"military_status___dropdown", "Veteran">>,
                         <<"opted_out_of_communications_afm", "true">> >>],
      [id |-> contact_id,
       properties |-> << <<"email", "">>, <<"firstname", "Ada">> >>],
      [id |-> contact_id,
       properties |-> << <<"email", None>>, <<"phone", "555">> >>],
      [id |-> contact_id] }

GetScripts(contact_id) ==
    Scripts({OkEmpty} \cup {Ok(c) : c \in SourceContacts(contact_id)},
            ServerError)

\* the destination answers a search with the contacts holding that email
Matches(d, email) == SelectSeq(d, LAMBDA c : c.email = email)

SearchScripts(d, email) ==
    Scripts({Ok([total |-> Len(Matches(d, email)),
                 results |-> Matches(d, email)])},
            ServerError)

UpdateScripts(d, contact_id) == Scripts({Ok([id |-> contact_id])}, ServerError)

NewDestId == "202"

\* the destination refuses a second contact with the same email (409)
CreateScripts(d, email) ==
    IF Matches(d, email) /= <<>>
    THEN { Answers(shape, OkEmpty, Conflict) :
             shape \in { s \in ScriptShapes :
                            \A i \in DOMAIN s : s[i] /= "2xx" } }
    ELSE Scripts({Ok([id |-> NewDestId])}, ServerError)

DestInits == { <<>>, << [id |-> "201", email |-> Email] >> }

(***************************************************************************)
(* verify_hubspot_signature                                                *)
(*                                                                         *)
(* The digests are modelled symbolically: a digest is equal to another only *)
(* if it was computed with the same key over the same text.                 *)
(***************************************************************************)
HmacSha256Hex(key, msg) == <<"hmac-sha256", key, msg>>

Sha256Hex(msg) == <<"sha256", msg>>

\* outcome of the decorator: "call" runs the handler, the others answer 401
VerifySignatureTrustV1(c, req) ==
    IF c.SKIP_SIGNATURE_VERIFICATION THEN "call"
    ELSE IF c.CLIENT_SECRET = "" THEN "call"
    ELSE IF req.headers.sig3 = <<>> \/ req.headers.ts = <<>>
    THEN IF req.headers.sig1 /= <<>> THEN "call" ELSE "missing"
    ELSE IF HmacSha256Hex(c.CLIENT_SECRET,
                          <<req.method, req.url, req.body, req.headers.ts[1]>>)
               /= req.headers.sig3
    THEN "invalid"
    ELSE "call"

VerifySignature(c, req) ==
    IF c.SKIP_SIGNATURE_VERIFICATION THEN "call"
    ELSE IF c.CLIENT_SECRET = "" THEN "call"
    ELSE IF req.headers.sig3 = <<>> \/ req.headers.ts = <<>>
    THEN IF /\ req.headers.sig1 /= <<>>
            /\ Sha256Hex(<<c.CLIENT_SECRET, req.body>>) = req.headers.sig1
         THEN "call"
         ELSE "missing"
    ELSE IF HmacSha256Hex(c.CLIENT_SECRET,
                          <<req.method, req.url, req.body, req.headers.ts[1]>>)
               /= req.headers.sig3
    THEN "invalid"
    ELSE "call"

(***************************************************************************)
(* Requests to POST /webhooks/hubspot                                      *)
(***************************************************************************)
WebhookUrl == "https://relay.example/webhooks/hubspot"

AppSecret == "app-secret"

Timestamp == "1700000000"

Event(subscriptionType, objectId, formId) ==
    [shape |-> "object", subscriptionType |-> subscriptionType,
     objectId |-> objectId, formId |-> formId]

\* an array element that is not a JSON object (a string, a number, null)
NotAnObject ==
    [shape |-> "scalar", subscriptionType |-> "", objectId |-> 0,
     formId |-> ""]

EventValues ==
    { Event("contact.creation", 101, ""),
      Event("contact.propertyChange", 102, ""),
      Event("form.submitted", 103, "form-1"),
      Event("form.submitted", 104, "form-2"),
      Event("contact.deletion", 105, ""),
      NotAnObject }

\* request bodies: a JSON array, a single JSON value, or unparseable text
Bodies(n) ==
    { [kind |-> "array", items |-> b] :
          b \in UNION { [1..k -> EventValues] : k \in 0..n } }
    \cup { [kind |-> "single", items |-> <<e>>] : e \in EventValues }
    \cup { [kind |-> "invalid", items |-> <<>>] }

NoHeaders == [sig3 |-> <<>>, ts |-> <<>>, sig1 |-> <<>>]

Req(headers, body) ==
    [method |-> "POST", url |-> WebhookUrl, headers |-> headers, body |-> body]

\* signature headers a sender can attach to a body: none, computed with the
\* app's secret, or computed with another key
SignedHeaders(body) ==
    { [sig3 |-> s3, ts |-> t, sig1 |-> s1] :
        s3 \in { <<>> } \cup
               { HmacSha256Hex(k, <<"POST", WebhookUrl, body, Timestamp>>) :
                     k \in {AppSecret, "other-key"} },
        t \in { <<>>, <<Timestamp>> },
        s1 \in { <<>> } \cup
               { Sha256Hex(<<k, body>>) : k \in {AppSecret, "other-key"} } }

Configs ==
    [SKIP_SIGNATURE_VERIFICATION : BOOLEAN,
     CLIENT_SECRET : {"", AppSecret},
     FORM_FILTER : { <<>>, <<"form-1">> }]

(***************************************************************************)
(* sync_contact_to_partner                                                 *)
(***************************************************************************)
NoRun ==
    [contact_id |-> "", event_type |-> "", status |-> "none", message |-> "",
     fetched |-> FALSE, props |-> <<>>, email |-> None, sync_props |-> <<>>,
     searched |-> FALSE, existing |-> <<>>, dest0 |-> <<>>]

\* the result dict and locals on entry; dest0 remembers what the destination
\* held when the run began
NewRun(contact_id, event_type, d) ==
    [NoRun EXCEPT !.contact_id = contact_id, !.event_type = event_type,
                  !.status = "unknown", !.dest0 = d]

\* the dict the function returns
ResultOf(r) ==
    [contact_id |-> r.contact_id, event_type |-> r.event_type,
     status |-> r.status, message |-> r.message]

\* one client call as seen from outside: which call, on which portal, with
\* which arguments, how it ended and whether any attempt got a 2xx
CallRec(op, account, target, properties, r) ==
    [op |-> op, account |-> account, target |-> target,
     properties |-> properties, outcome |-> r.status, got2xx |-> Got2xx(r)]

\* `if not email`
NoEmailNoneOnly(email) == email = None

NoEmail(email) == ~Truthy(email)

\* sync_props = map_properties_for_destination(props)
SyncPropsUnmapped(props) == props

SyncProps(props) == map_properties_for_destination(props)

\* `if existing:` chooses between update_contact and create_contact
WriteOpAlwaysCreate(existing) == "create_contact"

WriteOp(existing) ==
    IF DOMAIN existing /= {} THEN "update_contact" ELSE "create_contact"

\* return to hubspot_webhook: results.append(result), next event
Return(r) ==
    /\ run' = r
    /\ results' = Append(results, ResultOf(r))
    /\ idx' = idx + 1
    /\ pc' = "loop"

Fail(r, message) == Return([r EXCEPT !.status = "error", !.message = message])

\* contact = source.get_contact(...) up to the email check and the mapping
SyncGet ==
    /\ pc = "get"
    /\ \E script \in GetScripts(run.contact_id) :
         LET r == get_contact(run.contact_id, PropertiesQuery, script)
             contact == r.value
             props == Get(contact, "properties", <<>>)
             email == DictGet(props, "email")
         IN  /\ calls' = Append(calls, CallRec("get_contact", "source",
                                               run.contact_id, <<>>, r))
             /\ IF r.status = "raised" THEN Fail(run, r.value)
                ELSE IF DOMAIN contact = {}
                THEN Fail(run, "Contact not found in source portal")
                ELSE IF NoEmail(email)
                THEN Return([run EXCEPT !.fetched = TRUE, !.props = props,
                                        !.email = email,
                                        !.status = "skipped",
                                        !.message = "Contact has no email"])
                ELSE /\ run' = [run EXCEPT !.fetched = TRUE, !.props = props,
                                           !.email = email,
                                           !.sync_props = SyncProps(props)]
                     /\ pc' = "search"
                     /\ UNCHANGED <<results, idx>>
    /\ UNCHANGED <<cfg, request, events, response, dest, invoked, rq, mapIn,
                   mapOut>>

\* existing = dest.search_by_email(email)
SyncSearch ==
    /\ pc = "search"
    /\ \E script \in SearchScripts(dest, run.email) :
         LET r == search_request(run.email, script)
         IN  /\ calls' = Append(calls, CallRec("search_by_email", "dest",
                                               run.email, <<>>, r))
             /\ IF r.status = "raised" THEN Fail(run, r.value)
                ELSE /\ run' = [run EXCEPT !.searched = TRUE,
                                           !.existing = FirstResult(r.value)]
                     /\ pc' = "write"
                     /\ UNCHANGED <<results, idx>>
    /\ UNCHANGED <<cfg, request, events, response, dest, invoked, rq, mapIn,
                   mapOut>>

\* dest.update_contact(existing["id"], sync_props)
SyncUpdate ==
    /\ pc = "write"
    /\ WriteOp(run.existing) = "update_contact"
    /\ \E script \in UpdateScripts(dest, run.existing.id) :
         LET r == update_contact(run.existing.id, run.sync_props, script)
         IN  /\ calls' = Append(calls, CallRec("update_contact", "dest",
                                               run.existing.id,
                                               run.sync_props, r))
             /\ IF r.status = "raised" THEN Fail(run, r.value)
                ELSE Return([run EXCEPT
                               !.status = "updated",
                               !.message = "Updated contact: " \o run.email])
    /\ UNCHANGED <<cfg, request, events, response, dest, invoked, rq, mapIn,
                   mapOut>>

\* dest.create_contact(sync_props)
SyncCreate ==
    /\ pc = "write"
    /\ WriteOp(run.existing) = "create_contact"
    /\ \E script \in CreateScripts(dest, run.email) :
         LET r == create_contact(run.sync_props, script)
         IN  /\ calls' = Append(calls, CallRec("create_contact", "dest", "",
                                               run.sync_props, r))
             /\ dest' = IF Got2xx(r)
                        THEN Append(dest, [id |-> NewDestId,
                                           email |-> run.email])
                        ELSE dest
             /\ IF r.status = "raised" THEN Fail(run, r.value)
                ELSE Return([run EXCEPT
                               !.status = "created",
                               !.message = "Created contact: " \o run.email])
    /\ UNCHANGED <<cfg, request, events, response, invoked, rq, mapIn, mapOut>>

(***************************************************************************)
(* verify_hubspot_signature (decorated) and hubspot_webhook                *)
(***************************************************************************)
NoResponse == [status |-> 0, body |-> <<>>]

IdleRequest ==
    [method |-> "", url |-> "", data |-> None, attempt |-> 0,
     status |-> "idle", value |-> EmptyDict, sent |-> <<>>, slept |-> <<>>,
     got |-> <<>>]

\* the decorator answers 401 without calling the handler
VerifyReject ==
    /\ pc = "received"
    /\ VerifySignature(cfg, request) /= "call"
    /\ response' =
         [status |-> 401,
          body |-> [error |-> IF VerifySignature(cfg, request) = "missing"
                              THEN "Missing signature"
                              ELSE "Invalid signature"]]
    /\ pc' = "done"
    /\ UNCHANGED <<cfg, request, events, idx, results, run, calls, dest,
                   invoked, rq, mapIn, mapOut>>

\* the decorator calls the handler: return f(*args, **kwargs)
VerifyCall ==
    /\ pc = "received"
    /\ VerifySignature(cfg, request) = "call"
    /\ pc' = "handler"
    /\ UNCHANGED <<cfg, request, events, idx, results, response, run, calls,
                   dest, invoked, rq, mapIn, mapOut>>

\* events = request.json fails: the outer except answers 500
ParseFail ==
    /\ pc = "handler"
    /\ request.body.kind = "invalid"
    /\ response' = [status |-> 500, body |-> [error |-> "BadRequest"]]
    /\ pc' = "done"
    /\ UNCHANGED <<cfg, request, events, idx, results, run, calls, dest,
                   invoked, rq, mapIn, mapOut>>

\* events = request.json; a value that is not a list is wrapped in one
Parse ==
    /\ pc = "handler"
    /\ request.body.kind /= "invalid"
    /\ events' = request.body.items
    /\ results' = <<>>
    /\ idx' = 1
    /\ pc' = "loop"
    /\ UNCHANGED <<cfg, request, response, run, calls, dest, invoked, rq,
                   mapIn, mapOut>>

Recognized == {"contact.creation", "contact.propertyChange", "form.submitted"}

\* the form filter lets the event through
FormPasses(c, event) ==
    \/ event.subscriptionType /= "form.submitted"
    \/ c.FORM_FILTER = <<>>
    \/ \E i \in 1..Len(c.FORM_FILTER) : c.FORM_FILTER[i] = event.formId

AtEvent == pc = "loop" /\ idx <= Len(events)

\* event.get(...) on an element that is not a dict raises AttributeError,
\* which only the outer except catches
EventNotObject ==
    /\ AtEvent
    /\ events[idx].shape /= "object"
    /\ response' = [status |-> 500, body |-> [error |-> "AttributeError"]]
    /\ pc' = "done"
    /\ UNCHANGED <<cfg, request, events, idx, results, run, calls, dest,
                   invoked, rq, mapIn, mapOut>>

\* the else branch: the event type is ignored
EventIgnored ==
    /\ AtEvent
    /\ events[idx].shape = "object"
    /\ events[idx].subscriptionType \notin Recognized
    /\ idx' = idx + 1
    /\ UNCHANGED <<cfg, request, pc, events, results, response, run, calls,
                   dest, invoked, rq, mapIn, mapOut>>

\* a form submission whose form is not in FORM_FILTER
EventFormFiltered ==
    /\ AtEvent
    /\ events[idx].shape = "object"
    /\ events[idx].subscriptionType \in Recognized
    /\ ~FormPasses(cfg, events[idx])
    /\ results' = Append(results,
                         [contact_id |-> ToString(events[idx].objectId),
                          status |-> "skipped",
                          message |-> "Form " \o events[idx].formId
                                          \o " not in filter"])
    /\ idx' = idx + 1
    /\ UNCHANGED <<cfg, request, pc, events, response, run, calls, dest,
                   invoked, rq, mapIn, mapOut>>

\* result = sync_contact_to_partner(object_id, subscription_type): entry
EventSync ==
    /\ AtEvent
    /\ events[idx].shape = "object"
    /\ events[idx].subscriptionType \in Recognized
    /\ FormPasses(cfg, events[idx])
    /\ run' = NewRun(ToString(events[idx].objectId),
                     events[idx].subscriptionType, dest)
    /\ calls' = <<>>
    /\ invoked' = Append(invoked, idx)
    /\ pc' = "get"
    /\ UNCHANGED <<cfg, request, events, idx, results, response, dest, rq,
                   mapIn, mapOut>>

\* return jsonify({"received": ..., "processed": ..., "results": ...})
Respond ==
    /\ pc = "loop"
    /\ idx > Len(events)
    /\ response' = [status |-> 200,
                    body |-> [received |-> Len(events),
                              processed |-> Len(results),
                              results |-> results]]
    /\ pc' = "done"
    /\ UNCHANGED <<cfg, request, events, idx, results, run, calls, dest,
                   invoked, rq, mapIn, mapOut>>

InitWeb(configs, requests) ==
    /\ cfg \in configs
    /\ request \in requests
    /\ pc = "received"
    /\ events = <<>>
    /\ idx = 0
    /\ results = <<>>
    /\ response = NoResponse
    /\ run = NoRun
    /\ calls = <<>>
    /\ dest \in DestInits
    /\ invoked = <<>>
    /\ rq = IdleRequest
    /\ mapIn = <<>>
    /\ mapOut = <<>>

\* a webhook request without signature headers has arrived
Init == InitWeb(Configs, { Req(NoHeaders, b) : b \in Bodies(MaxEvents) })

\* a webhook request with any combination of signature headers has arrived
\* at a server configured with a form filter
InitVerify ==
    InitWeb({ c \in Configs : c.FORM_FILTER /= <<>> },
            UNION { { Req(h, b) : h \in SignedHeaders(b) } :
                    b \in Bodies(MaxSignedEvents) })

Next ==
    \/ VerifyReject
    \/ VerifyCall
    \/ ParseFail
    \/ Parse
    \/ EventNotObject
    \/ EventIgnored
    \/ EventFormFiltered
    \/ EventSync
    \/ SyncGet
    \/ SyncSearch
    \/ SyncUpdate
    \/ SyncCreate
    \/ Respond

Spec == Init /\ [][Next]_vars

SpecVerify == InitVerify /\ [][Next]_vars

(***************************************************************************)
(* One HubSpotAPI._request call, an attempt at a time.                      *)
(***************************************************************************)
Exchanges ==
    { Ok([id |-> "201"]), OkEmpty, RateLimited(<<>>), RateLimited(<<"7">>),
      RateLimited(<<"Wed, 21 Oct 2026 07:28:00 GMT">>), ServerError,
      ConnectionError }

InitRequest ==
    /\ rq \in { NewRequest("GET", "/crm/v3/objects/contacts?limit=1", None),
                NewRequest("POST", "/crm/v3/objects/contacts/search",
                           SearchBody(Email)),
                NewRequest("PATCH", "/crm/v3/objects/contacts/201",
                           [properties |-> << <<"email", Email>> >>]) }
    /\ pc = "request"
    /\ cfg \in {[SKIP_SIGNATURE_VERIFICATION |-> FALSE, CLIENT_SECRET |-> "",
                 FORM_FILTER |-> <<>>]}
    /\ request = Req(NoHeaders, [kind |-> "invalid", items |-> <<>>])
    /\ events = <<>>
    /\ idx = 0
    /\ results = <<>>
    /\ response = NoResponse
    /\ run = NoRun
    /\ calls = <<>>
    /\ dest = <<>>
    /\ invoked = <<>>
    /\ mapIn = <<>>
    /\ mapOut = <<>>

Attempt ==
    /\ pc = "request"
    /\ rq.status = "running"
    /\ \E resp \in Exchanges : rq' = RequestStep(rq, resp)
    /\ UNCHANGED <<webVars, mapIn, mapOut>>

NextRequest == Attempt

SpecRequest == InitRequest /\ [][NextRequest]_vars

(***************************************************************************)
(* map_properties_for_destination on arbitrary property dicts.              *)
(***************************************************************************)
MapKeys ==
    { "email", "firstname", "military_status___dropdown",
      "military_branch___dropdown", "armed_forces_mutual_member",
      "opted_out_of_communications_afm", "hs_email_optout_27547260" }

MapValues == { None, "", "x", "y" }

PropDicts(n) ==
    { d \in UNION { [1..k -> MapKeys \X MapValues] : k \in 0..n } :
        \A i, j \in 1..Len(d) : d[i][1] = d[j][1] => i = j }

InitMap ==
    /\ mapIn \in PropDicts(MaxProps)
    /\ mapOut = <<>>
    /\ pc = "map"
    /\ cfg \in {[SKIP_SIGNATURE_VERIFICATION |-> FALSE, CLIENT_SECRET |-> "",
                 FORM_FILTER |-> <<>>]}
    /\ request = Req(NoHeaders, [kind |-> "invalid", items |-> <<>>])
    /\ events = <<>>
    /\ idx = 0
    /\ results = <<>>
    /\ response = NoResponse
    /\ run = NoRun
    /\ calls = <<>>
    /\ dest = <<>>
    /\ invoked = <<>>
    /\ rq = IdleRequest

ApplyMap ==
    /\ pc = "map"
    /\ mapOut' = map_properties_for_destination(mapIn)
    /\ pc' = "mapped"
    /\ UNCHANGED <<cfg, request, events, idx, results, response, run, calls,
                   dest, invoked, rq, mapIn>>

NextMap == ApplyMap

SpecMap == InitMap /\ [][NextMap]_vars

(***************************************************************************)
(* Properties                                                              *)
(***************************************************************************)
\* sync_contact_to_partner has returned and `run`, `calls` describe that run
Finished == run.status \in {"created", "updated", "skipped", "error"}

CallsTo(op) == { i \in 1..Len(calls) : calls[i].op = op }

DestCalls == { i \in 1..Len(calls) : calls[i].account = "dest" }

\* search_by_email returned a record
Matched == run.searched /\ DOMAIN run.existing /= {}

\* C1 as stated: whenever the source contact has a non-empty email and the
\* destination search returns a match, the outcome is 'updated', exactly one
\* update call goes to the matched record's id and no create call is made.
C1_AlwaysUpdated ==
    (Finished /\ Truthy(run.email) /\ Matched) =>
        /\ run.status = "updated"
        /\ Cardinality(CallsTo("update_contact")) = 1
        /\ \A i \in CallsTo("update_contact") : calls[i].target = run.existing.id
        /\ CallsTo("create_contact") = {}

\* C1 amended: whenever the source contact has a non-empty email and the
\* destination search returns a match, exactly one update call goes to the
\* matched record's id and no create call is made; the outcome is 'updated'
\* when that update call returns and 'error' when it raises.
C1_UpdateOnMatch ==
    (Finished /\ Truthy(run.email) /\ Matched) =>
        /\ Cardinality(CallsTo("update_contact")) = 1
        /\ CallsTo("create_contact") = {}
        /\ \A i \in CallsTo("update_contact") :
             /\ calls[i].target = run.existing.id
             /\ calls[i].outcome = "returned" => run.status = "updated"
             /\ calls[i].outcome = "raised" => run.status = "error"

C1_Witness ==
    /\ Finished /\ Truthy(run.email) /\ Matched
    /\ run.status = "updated"
    /\ \E i \in CallsTo("update_contact") : calls[i].got2xx

\* the destination held no contact with the run's email when the run began
AbsentInDest == run.fetched /\ Truthy(run.email)
                    /\ Matches(run.dest0, run.email) = <<>>

\* C2 as stated: whenever the source contact has a non-empty email that no
\* destination contact holds, the outcome is 'created' and the destination
\* receives a create call carrying map_properties_for_destination of the
\* fetched properties, and no update call.
C2_AlwaysCreated ==
    (Finished /\ AbsentInDest) =>
        /\ run.status = "created"
        /\ Cardinality(CallsTo("create_contact")) = 1
        /\ \A i \in CallsTo("create_contact") :
             calls[i].properties = map_properties_for_destination(run.props)
        /\ CallsTo("update_contact") = {}

\* C2 amended: whenever the source contact has a non-empty email that no
\* destination contact holds, no update call is made; if the search call
\* returns, exactly one create call is made and it carries
\* map_properties_for_destination of the fetched properties; the outcome is
\* 'created' when the search and the create call both return, and 'error'
\* when either raises (a raising search is followed by no create call).
C2_CreateOnAbsent ==
    (Finished /\ AbsentInDest) =>
        /\ CallsTo("update_contact") = {}
        /\ Cardinality(CallsTo("search_by_email")) = 1
        /\ \A s \in CallsTo("search_by_email") :
             /\ calls[s].outcome = "raised" =>
                  CallsTo("create_contact") = {} /\ run.status = "error"
             /\ calls[s].outcome = "returned" =>
                  /\ Cardinality(CallsTo("create_contact")) = 1
                  /\ \A i \in CallsTo("create_contact") :
                       /\ calls[i].properties =
                              map_properties_for_destination(run.props)
                       /\ calls[i].outcome = "returned" =>
                              run.status = "created"
                       /\ calls[i].outcome = "raised" => run.status = "error"

C2_Witness ==
    /\ Finished /\ AbsentInDest
    /\ run.status = "created"
    /\ \E i \in CallsTo("create_contact") :
         /\ calls[i].got2xx
         /\ calls[i].properties =
                << <<"email", Email>>, <<"firstname", "Ada">>,
                   <<"hs_email_optout_27547260", "true">> >>

\* C3: whenever the fetched source contact has no email property or an empty
\* one, the outcome is 'skipped' and the run makes no call to the destination.
C3_SkippedWithoutDestCalls ==
    (Finished /\ run.fetched /\ ~Truthy(DictGet(run.props, "email"))) =>
        /\ run.status = "skipped"
        /\ DestCalls = {}

C3_Witness ==
    /\ Finished /\ run.fetched
    /\ "email" \in Keys(run.props) /\ DictGet(run.props, "email") = ""
    /\ run.status = "skipped"
    /\ Len(calls) = 1

\* C4 as stated: a failure while processing one event never aborts the batch:
\* once events have been synced, the request ends with the batch summary and
\* every event of the array has been gone through.
C4_BatchNeverAborted ==
    (pc = "done" /\ invoked /= <<>>) =>
        /\ response.status = 200
        /\ idx = Len(events) + 1

\* the request carries a signature that is valid for it under the secret
ValidV3 ==
    /\ request.headers.ts /= <<>>
    /\ request.headers.sig3 =
           HmacSha256Hex(cfg.CLIENT_SECRET,
                         <<request.method, request.url, request.body,
                           request.headers.ts[1]>>)

ValidV1 ==
    request.headers.sig1 = Sha256Hex(<<cfg.CLIENT_SECRET, request.body>>)

VerificationEnabled ==
    ~cfg.SKIP_SIGNATURE_VERIFICATION /\ cfg.CLIENT_SECRET /= ""

\* C5: with verification enabled, a request whose signature is missing or
\* invalid is answered 401, never enters the handler and causes no CRM call.
C5_InvalidSignatureRejected ==
    (VerificationEnabled /\ ~ValidV3 /\ ~ValidV1) =>
        /\ pc \in {"received", "done"}
        /\ pc = "done" => response.status = 401
        /\ calls = <<>>
        /\ invoked = <<>>
        /\ run = NoRun

C5_Witness ==
    /\ VerificationEnabled /\ ~ValidV3 /\ ~ValidV1
    /\ request.headers.sig1 /= <<>>
    /\ request.body.kind = "array" /\ request.body.items /= <<>>
    /\ pc = "done"
    /\ response.status = 401

\* an event the endpoint is to keep: a contact creation, a contact property
\* change, or a form submission that passes the form-id allow-list (an empty
\* allow-list lets every form through)
Kept(e) ==
    /\ e.shape = "object"
    /\ \/ e.subscriptionType \in {"contact.creation", "contact.propertyChange"}
       \/ /\ e.subscriptionType = "form.submitted"
          /\ \/ cfg.FORM_FILTER = <<>>
             \/ e.formId \in {cfg.FORM_FILTER[i] : i \in 1..Len(cfg.FORM_FILTER)}

KeptIndexes == { i \in 1..Len(events) : Kept(events[i]) }

\* C6 as stated: the response has received = number of events and processed
\* = number of kept events; sync is invoked once per kept event in array
\* order; results holds one outcome per kept event in that order and events
\* that are not kept contribute no outcome.
C6_OneOutcomePerKeptEvent ==
    (pc = "done" /\ response.status = 200) =>
        /\ response.body.received = Len(request.body.items)
        /\ response.body.processed = Cardinality(KeptIndexes)
        /\ Len(invoked) = Cardinality(KeptIndexes)
        /\ \A k \in 1..Len(invoked) :
             /\ invoked[k] \in KeptIndexes
             /\ \A j \in 1..Len(invoked) : j < k => invoked[j] < invoked[k]
        /\ Len(response.body.results) = Len(invoked)
        /\ \A k \in 1..Len(response.body.results) :
             k <= Len(invoked) =>
                response.body.results[k].contact_id =
                    ToString(events[invoked[k]].objectId)

\* C9 as stated: every entry of the results list has a status among created,
\* updated, skipped, error and carries the contact identifier, the event type
\* and a message.
C9_OutcomeShape ==
    \A i \in 1..Len(results) :
        /\ {"contact_id", "event_type", "status", "message"}
               \subseteq DOMAIN results[i]
        /\ results[i].status \in {"created", "updated", "skipped", "error"}

\* C10 as stated: the outcome is 'created' or 'updated' only if the
\* destination create or update call received a successful response on some
\* attempt.
C10_WrittenOnlyOn2xx ==
    (Finished /\ run.status \in {"created", "updated"}) =>
        \E i \in CallsTo("update_contact") \cup CallsTo("create_contact") :
            calls[i].got2xx

\* C7: a call makes at most `retries` attempts; when the first attempt gets
\* 429 and the second a successful response, the client has slept the
\* Retry-After duration (10 s without the header), sent the same method, URL
\* and body again, and returns the second response's body.
C7_RetryAfter429 ==
    /\ Len(rq.sent) <= retries
    /\ ( /\ Len(rq.got) >= 2
         /\ rq.got[1].exc = None /\ rq.got[1].status = 429
         /\ rq.got[2].exc = None /\ rq.got[2].status < 400 ) =>
           /\ Len(rq.sent) = 2
           /\ rq.sent[2] = rq.sent[1]
           /\ rq.slept = << IF rq.got[1].retry_after = <<"7">> THEN 7 ELSE 10 >>
           /\ rq.status = "returned"
           /\ rq.value = IF rq.got[2].text THEN rq.got[2].json ELSE EmptyDict

C7_Witness ==
    /\ Len(rq.got) = 2
    /\ rq.got[1] = RateLimited(<<"7">>)
    /\ rq.got[2] = Ok([id |-> "201"])
    /\ rq.status = "returned"
    /\ rq.value = [id |-> "201"]
    /\ rq.method = "PATCH"

\* C8: the mapper's output has no key of the skip list, and a key of the
\* rename table never appears under its source name: if its value is kept it
\* appears under the mapped name.
C8_SkipAndRename ==
    pc = "mapped" =>
        /\ \A k \in Keys(mapOut) : k \notin SkipSet
        /\ \A k \in Keys(mapIn) \cap DOMAIN PROPERTY_MAPPING :
             /\ k \notin Keys(mapOut)
             /\ Truthy(DictGet(mapIn, k)) => PROPERTY_MAPPING[k] \in Keys(mapOut)

C8_Witness ==
    /\ pc = "mapped"
    /\ Truthy(DictGet(mapIn, "military_status___dropdown"))
    /\ DictGet(mapIn, "opted_out_of_communications_afm") = "x"
    /\ DictGet(mapOut, "hs_email_optout_27547260") = "x"

====
